---------------------------- MODULE Spec2Model ----------------------------
(***************************************************************************)
(* Model of src/app.py, the Mergington High School activities API: two     *)
(* in-memory mappings (activities, teachers) and the request handlers      *)
(* root, get_activities, login, signup_for_activity and                    *)
(* unregister_from_activity.                                               *)
(*                                                                         *)
(* Strings that are only compared for equality as a whole (activity names, *)
(* emails, messages) are TLA+ strings.  Usernames and passwords are        *)
(* sequences of characters, so that the empty string, case and             *)
(* one-character deviations are values of the model.  An optional query    *)
(* parameter is a record [given, val]: None is given = FALSE.              *)
(***************************************************************************)
EXTENDS Integers, Sequences, FiniteSets, TLC

VARIABLES
    activities,   \* app.py:39  name -> activity record
    teachers,     \* app.py:57  username -> password
    last,         \* one call at a time: the completed call (inputs, response, store before it)
    pc,           \* concurrent calls: where each worker thread is in its handler
    frame,        \* concurrent calls: each worker thread's arguments
    res,          \* concurrent calls: each worker thread's last response
    ncalls        \* concurrent calls: calls started so far

vars == <<activities, teachers, last, pc, frame, res, ncalls>>

-----------------------------------------------------------------------------
(* Bounds *)

\* longest username / password the calls are given
MaxStrLen == 2

\* calls started in a concurrent run
MaxCalls == 3

-----------------------------------------------------------------------------
(* Status codes raised by the handlers *)

Unauthorized == 401
NotFound == 404
Conflict == 400

-----------------------------------------------------------------------------
(* Values *)

Alphabet == {"a", "A"}

RECURSIVE StrOfLen(_)
StrOfLen(k) ==
    IF k = 0 THEN {<< >>}
    ELSE {Append(s, c) : s \in StrOfLen(k - 1), c \in Alphabet}

\* the strings a caller can send as username or password
Str == UNION {StrOfLen(k) : k \in 0..MaxStrLen}

None == [given |-> FALSE, val |-> << >>]
Some(s) == [given |-> TRUE, val |-> s]

\* an optional str query parameter (username: str = None)
OptStr == {None} \cup {Some(s) : s \in Str}

\* Python truthiness of an optional str: None and "" are falsy
Truthy(x) == x.given /\ Len(x.val) > 0

ActivityNames == {"Chess Club", "Art Club", "Unknown Club"}
Emails == {"a@x.com", "b@x.com", "z@x.com"}
NoArg == "<none>"

\* x in l, for a Python list
InList(x, l) == \E i \in 1..Len(l) : l[i] = x

\* number of occurrences of x in l
Count(x, l) == Cardinality({i \in 1..Len(l) : l[i] = x})

\* index of the first occurrence of x in l (x in l)
IndexOf(x, l) == CHOOSE i \in 1..Len(l) : l[i] = x /\ \A j \in 1..(i - 1) : l[j] # x

\* l.remove(x) where x in l: the first occurrence is removed
ListRemove(l, x) ==
    LET i == IndexOf(x, l)
    IN  SubSeq(l, 1, i - 1) \o SubSeq(l, i + 1, Len(l))

-----------------------------------------------------------------------------
(* Startup: the two stores, read once from activities.json and             *)
(* teachers.json; a missing or malformed file gives an empty mapping.      *)

EmptyStore == [k \in {} |-> << >>]

LoadedActivities ==
    [n \in {"Chess Club", "Art Club"} |->
        IF n = "Chess Club"
        THEN [description |-> "Learn strategies and compete in chess tournaments",
              schedule |-> "Fridays, 3:30 PM - 5:00 PM",
              max_participants |-> 1,
              participants |-> <<"a@x.com">>]
        ELSE [description |-> "Explore various art techniques",
              schedule |-> "Thursdays, 3:30 PM - 5:00 PM",
              max_participants |-> 2,
              participants |-> << >>]]

load_activities == {LoadedActivities, EmptyStore}

LoadedTeachers ==
    (<<"a">> :> <<"a", "A">>) @@ (<<"A", "a">> :> <<"A">>)

load_teachers == {LoadedTeachers, EmptyStore}

-----------------------------------------------------------------------------
(* Responses *)

HTTPException(status_code, detail) ==
    [status_code |-> status_code, body |-> [detail |-> detail]]

NoException == [status_code |-> 0, body |-> [detail |-> ""]]

Ok(body) == [status_code |-> 200, body |-> body]

\* an exception that is no HTTPException: the framework answers 500
ServerError == [status_code |-> 500, body |-> "Internal Server Error"]

-----------------------------------------------------------------------------
(* Handlers *)

root == [status_code |-> 307, body |-> [url |-> "/static/index.html"]]

get_activities(acts) == Ok(acts)

login_CaseInsensitive(tchs, username, password) ==
    LET Lower(s) == [i \in 1..Len(s) |-> IF s[i] = "A" THEN "a" ELSE s[i]]
    IN  IF \E u \in DOMAIN tchs : Lower(u) = Lower(username) /\ Lower(tchs[u]) = Lower(password)
        THEN Ok([message |-> "Login successful", username |-> username])
        ELSE HTTPException(Unauthorized, "Invalid credentials")

login(tchs, username, password) ==
    IF username \notin DOMAIN tchs \/ tchs[username] # password
    THEN HTTPException(Unauthorized, "Invalid credentials")
    ELSE Ok([message |-> "Login successful", username |-> username])

\* signup_for_activity, the validation
SignupValidate_NoMembership(acts, activity_name, email) ==
    IF activity_name \notin DOMAIN acts
    THEN HTTPException(NotFound, "Activity not found")
    ELSE NoException

SignupValidate_Capacity(acts, activity_name, email) ==
    IF activity_name \notin DOMAIN acts
    THEN HTTPException(NotFound, "Activity not found")
    ELSE IF InList(email, acts[activity_name].participants)
            \/ Len(acts[activity_name].participants) >= acts[activity_name].max_participants
         THEN HTTPException(Conflict, "Student is already signed up")
         ELSE NoException

SignupValidate(acts, activity_name, email) ==
    IF activity_name \notin DOMAIN acts
    THEN HTTPException(NotFound, "Activity not found")
    ELSE LET activity == acts[activity_name]
         IN  IF InList(email, activity.participants)
             THEN HTTPException(Conflict, "Student is already signed up")
             ELSE NoException

\* signup_for_activity, the append (the list is mutated in place)
SignupAdd_Recheck(acts, activity_name, email) ==
    IF InList(email, acts[activity_name].participants)
    THEN acts
    ELSE [acts EXCEPT ![activity_name].participants = Append(@, email)]

SignupAdd_TakesSpot(acts, activity_name, email) ==
    [acts EXCEPT ![activity_name].participants = Append(@, email),
                 ![activity_name].max_participants = @ - 1]

SignupAdd(acts, activity_name, email) ==
    [acts EXCEPT ![activity_name].participants = Append(@, email)]

SignupMessage(activity_name, email) ==
    [message |-> <<"Signed up ", email, " for ", activity_name>>]

signup_for_activity_AppendFirst(acts, activity_name, email) ==
    IF activity_name \notin DOMAIN acts
    THEN [response |-> HTTPException(NotFound, "Activity not found"), activities |-> acts]
    ELSE IF InList(email, acts[activity_name].participants)
         THEN [response |-> HTTPException(Conflict, "Student is already signed up"),
               activities |-> SignupAdd(acts, activity_name, email)]
         ELSE [response |-> Ok(SignupMessage(activity_name, email)),
               activities |-> SignupAdd(acts, activity_name, email)]

signup_for_activity(acts, activity_name, email) ==
    LET e == SignupValidate(acts, activity_name, email)
    IN  IF e # NoException
        THEN [response |-> e, activities |-> acts]
        ELSE [response |-> Ok(SignupMessage(activity_name, email)),
              activities |-> SignupAdd(acts, activity_name, email)]

\* unregister_from_activity, the authentication
UnregisterAuth_Required(tchs, username, password) ==
    IF Truthy(username) /\ Truthy(password)
          /\ username.val \in DOMAIN tchs /\ tchs[username.val] = password.val
    THEN NoException
    ELSE HTTPException(Unauthorized, "Invalid teacher credentials")

UnregisterAuth(tchs, username, password) ==
    IF Truthy(username) /\ Truthy(password)
    THEN IF username.val \notin DOMAIN tchs \/ tchs[username.val] # password.val
         THEN HTTPException(Unauthorized, "Invalid teacher credentials")
         ELSE NoException
    ELSE NoException

\* unregister_from_activity, the validation
UnregisterValidate(acts, activity_name, email) ==
    IF activity_name \notin DOMAIN acts
    THEN HTTPException(NotFound, "Activity not found")
    ELSE LET activity == acts[activity_name]
         IN  IF ~InList(email, activity.participants)
             THEN HTTPException(Conflict, "Student is not signed up for this activity")
             ELSE NoException

\* unregister_from_activity, the removal: list.remove raises ValueError when
\* the email is not in the list
UnregisterRemove_Last(acts, activity_name, email) ==
    LET l == acts[activity_name].participants
    IN  IF ~InList(email, l)
        THEN [raised |-> TRUE, activities |-> acts]
        ELSE [raised |-> FALSE,
              activities |-> [acts EXCEPT ![activity_name].participants = SubSeq(l, 1, Len(l) - 1)]]

UnregisterRemove(acts, activity_name, email) ==
    LET l == acts[activity_name].participants
    IN  IF ~InList(email, l)
        THEN [raised |-> TRUE, activities |-> acts]
        ELSE [raised |-> FALSE,
              activities |-> [acts EXCEPT ![activity_name].participants = ListRemove(l, email)]]

UnregisterMessage(activity_name, email) ==
    [message |-> <<"Unregistered ", email, " from ", activity_name>>]

unregister_from_activity(acts, tchs, activity_name, email, username, password) ==
    LET a == UnregisterAuth(tchs, username, password)
        e == UnregisterValidate(acts, activity_name, email)
        r == UnregisterRemove(acts, activity_name, email)
    IN  IF a # NoException THEN [response |-> a, activities |-> acts]
        ELSE IF e # NoException THEN [response |-> e, activities |-> acts]
        ELSE IF r.raised THEN [response |-> ServerError, activities |-> r.activities]
        ELSE [response |-> Ok(UnregisterMessage(activity_name, email)),
              activities |-> r.activities]

-----------------------------------------------------------------------------
(* One call at a time: every action is a whole handler, run to completion. *)
(* last holds the call and its response until the response is delivered;   *)
(* the next call starts after that.                                        *)

Threads == {1, 2}

Call(op, activity_name, email, username, password, response) ==
    [op |-> op, activity_name |-> activity_name, email |-> email,
     username |-> username, password |-> password,
     status_code |-> response.status_code, body |-> response.body,
     before |-> [activities |-> activities, teachers |-> teachers]]

NoCall == [op |-> "none"]

Idle == [op |-> "none", activity_name |-> NoArg, email |-> NoArg]
NoResponse == [op |-> "none", activity_name |-> NoArg, email |-> NoArg, status_code |-> 0]

Init ==
    /\ activities \in load_activities
    /\ teachers \in load_teachers
    /\ last = NoCall
    /\ pc = [t \in Threads |-> "idle"]
    /\ frame = [t \in Threads |-> Idle]
    /\ res = [t \in Threads |-> NoResponse]
    /\ ncalls = 0

ConcUnchanged == UNCHANGED <<pc, frame, res, ncalls>>

Root ==
    /\ last = NoCall
    /\ last' = Call("root", NoArg, NoArg, None, None, root)
    /\ UNCHANGED <<activities, teachers>>
    /\ ConcUnchanged

GetActivities ==
    /\ last = NoCall
    /\ last' = Call("get_activities", NoArg, NoArg, None, None,
                    get_activities(activities))
    /\ UNCHANGED <<activities, teachers>>
    /\ ConcUnchanged

Login ==
    /\ last = NoCall
    /\ \E username \in Str, password \in Str :
        /\ last' = Call("login", NoArg, NoArg, Some(username), Some(password),
                        login(teachers, username, password))
        /\ UNCHANGED <<activities, teachers>>
        /\ ConcUnchanged

Signup ==
    /\ last = NoCall
    /\ \E activity_name \in ActivityNames, email \in Emails :
        LET r == signup_for_activity(activities, activity_name, email)
        IN  /\ activities' = r.activities
            /\ last' = Call("signup", activity_name, email, None, None,
                            r.response)
            /\ UNCHANGED teachers
            /\ ConcUnchanged

Unregister ==
    /\ last = NoCall
    /\ \E activity_name \in ActivityNames, email \in Emails,
          username \in OptStr, password \in OptStr :
        LET r == unregister_from_activity(activities, teachers, activity_name, email,
                                          username, password)
        IN  /\ activities' = r.activities
            /\ last' = Call("unregister", activity_name, email, username, password,
                            r.response)
            /\ UNCHANGED teachers
            /\ ConcUnchanged

\* the response of the completed call is sent; the server takes the next call
Respond ==
    /\ last # NoCall
    /\ last' = NoCall
    /\ UNCHANGED <<activities, teachers>>
    /\ ConcUnchanged

Next == Root \/ GetActivities \/ Login \/ Signup \/ Unregister \/ Respond

Spec == Init /\ [][Next]_vars

-----------------------------------------------------------------------------
(* Concurrent calls.  The handlers are plain def functions, which the      *)
(* framework runs on worker threads, so two calls can interleave.  The     *)
(* stores are shared; a handler's validation and its list mutation are     *)
(* separate steps with other threads' steps possible in between.           *)

Frame(op, activity_name, email) ==
    [op |-> op, activity_name |-> activity_name, email |-> email]

Response(op, activity_name, email, response) ==
    [op |-> op, activity_name |-> activity_name, email |-> email,
     status_code |-> response.status_code]

Start(t) ==
    /\ pc[t] = "idle"
    /\ ncalls < MaxCalls
    /\ ncalls' = ncalls + 1

Return(t, op, activity_name, email, response) ==
    /\ pc' = [pc EXCEPT ![t] = "responded"]
    /\ frame' = [frame EXCEPT ![t] = Idle]
    /\ res' = [res EXCEPT ![t] = Response(op, activity_name, email, response)]

\* login, whole: it reads teachers, which no handler writes.  The thread
\* keeps the response, not the credentials: one step per distinct response.
LoginT(t) ==
    /\ Start(t)
    /\ \E r \in {login(teachers, username, password) : username \in Str, password \in Str} :
        Return(t, "login", NoArg, NoArg, r)
    /\ UNCHANGED <<activities, teachers, last>>

\* signup_for_activity up to the membership test
SignupCheckT(t) ==
    /\ Start(t)
    /\ \E activity_name \in ActivityNames, email \in Emails :
        LET e == SignupValidate(activities, activity_name, email)
        IN  IF e # NoException
            THEN Return(t, "signup", activity_name, email, e)
            ELSE /\ pc' = [pc EXCEPT ![t] = "signup_append"]
                 /\ frame' = [frame EXCEPT ![t] = Frame("signup", activity_name, email)]
                 /\ UNCHANGED res
    /\ UNCHANGED <<activities, teachers, last>>

\* signup_for_activity, the append and the return
SignupAppendT(t) ==
    /\ pc[t] = "signup_append"
    /\ activities' = SignupAdd(activities, frame[t].activity_name, frame[t].email)
    /\ Return(t, "signup", frame[t].activity_name, frame[t].email,
              Ok(SignupMessage(frame[t].activity_name, frame[t].email)))
    /\ UNCHANGED <<teachers, last, ncalls>>

\* unregister_from_activity up to the membership test; a is the outcome of
\* the authentication for some choice of username and password
UnregisterCheckT(t) ==
    /\ Start(t)
    /\ \E activity_name \in ActivityNames, email \in Emails,
          a \in {UnregisterAuth(teachers, username, password) :
                    username \in OptStr, password \in OptStr} :
        LET e == UnregisterValidate(activities, activity_name, email)
        IN  IF a # NoException THEN Return(t, "unregister", activity_name, email, a)
            ELSE IF e # NoException THEN Return(t, "unregister", activity_name, email, e)
            ELSE /\ pc' = [pc EXCEPT ![t] = "unregister_remove"]
                 /\ frame' = [frame EXCEPT ![t] = Frame("unregister", activity_name, email)]
                 /\ UNCHANGED res
    /\ UNCHANGED <<activities, teachers, last>>

\* unregister_from_activity, the remove and the return
UnregisterRemoveT(t) ==
    /\ pc[t] = "unregister_remove"
    /\ LET r == UnregisterRemove(activities, frame[t].activity_name, frame[t].email)
       IN  /\ activities' = r.activities
           /\ Return(t, "unregister", frame[t].activity_name, frame[t].email,
                     IF r.raised THEN ServerError
                     ELSE Ok(UnregisterMessage(frame[t].activity_name, frame[t].email)))
    /\ UNCHANGED <<teachers, last, ncalls>>

\* the response is sent; the thread is free for the next call
RespondT(t) ==
    /\ pc[t] = "responded"
    /\ pc' = [pc EXCEPT ![t] = "idle"]
    /\ res' = [res EXCEPT ![t] = NoResponse]
    /\ UNCHANGED <<activities, teachers, last, frame, ncalls>>

NextConc ==
    \E t \in Threads :
        \/ LoginT(t)
        \/ SignupCheckT(t)
        \/ SignupAppendT(t)
        \/ UnregisterCheckT(t)
        \/ UnregisterRemoveT(t)
        \/ RespondT(t)

SpecConc == Init /\ [][NextConc]_vars

-----------------------------------------------------------------------------
(* Properties.  In Spec, last is the call that has just run to completion: *)
(* its inputs, its response, and the stores as they were when it started.  *)

\* the pair is an entry of the credential store tchs
Stored(tchs, u, p) == u \in DOMAIN tchs /\ tchs[u] = p

NoDup(l) == \A i, j \in 1..Len(l) : l[i] = l[j] => i = j

\* l with every occurrence of x left out, the rest in order
Without(l, x) ==
    LET Keep(y) == y # x
    IN  SelectSeq(l, Keep)

\* s and t differ in a single character: one substituted, or one left out
OneCharOff(s, t) ==
    \/ /\ Len(s) = Len(t)
       /\ Cardinality({i \in 1..Len(s) : s[i] # t[i]}) = 1
    \/ \E i \in 1..Len(t) : s = SubSeq(t, 1, i - 1) \o SubSeq(t, i + 1, Len(t))
    \/ \E i \in 1..Len(s) : t = SubSeq(s, 1, i - 1) \o SubSeq(s, i + 1, Len(s))

\* every activity other than n is as it was before the call
OthersUnchanged(n) ==
    /\ DOMAIN activities = DOMAIN last.before.activities
    /\ \A m \in DOMAIN activities \ {n} : activities[m] = last.before.activities[m]

\* C1: with calls run one at a time from a store without duplicates, no
\* activity's participants list ever holds the same email twice.
C1_NoDuplicates ==
    \A n \in DOMAIN activities : NoDup(activities[n].participants)

C1_Witness ==
    /\ last.op = "unregister"
    /\ last.status_code = 200
    /\ \E n \in DOMAIN activities : Len(activities[n].participants) = 2
    /\ \E n \in DOMAIN activities : Len(activities[n].participants) = 3

\* C2 as stated: for an activity name that is no key of the store, signup
\* and unregister both signal NotFound, whatever the credentials.
C2_Original ==
    (/\ last.op \in {"signup", "unregister"}
     /\ last.activity_name \notin DOMAIN last.before.activities)
    => last.status_code = NotFound

\* C2 amended: for an activity name that is no key of the store, signup
\* signals NotFound, and unregister signals NotFound unless it is given a
\* non-empty username and a non-empty password that are no stored
\* credential, in which case it signals Unauthorized.
C2_Amended ==
    (/\ last.op \in {"signup", "unregister"}
     /\ last.activity_name \notin DOMAIN last.before.activities)
    => IF /\ last.op = "unregister"
          /\ last.username.given /\ last.username.val # << >>
          /\ last.password.given /\ last.password.val # << >>
          /\ ~Stored(teachers, last.username.val, last.password.val)
       THEN last.status_code = Unauthorized
       ELSE last.status_code = NotFound

C2_Witness ==
    /\ last.op = "unregister"
    /\ last.activity_name \notin DOMAIN last.before.activities
    /\ DOMAIN last.before.activities # {}
    /\ last.username.given /\ last.password.given
    /\ Stored(teachers, last.username.val, last.password.val)
    /\ last.status_code = NotFound

\* C3: an unregister call given both a username and a password (any
\* strings) that are no stored credential signals Unauthorized and removes
\* no participant; a call given neither ends exactly as the same call with
\* valid teacher credentials does.
C3_AuthGate ==
    last.op = "unregister" =>
        /\ (/\ last.username.given /\ last.password.given
            /\ ~Stored(teachers, last.username.val, last.password.val))
           => /\ last.status_code = Unauthorized
              /\ activities = last.before.activities
        /\ (~last.username.given /\ ~last.password.given)
           => /\ last.status_code # Unauthorized
              /\ \A u \in DOMAIN teachers :
                    LET v == unregister_from_activity(last.before.activities, teachers,
                                 last.activity_name, last.email, Some(u), Some(teachers[u]))
                    IN  /\ v.response.status_code = last.status_code
                        /\ v.activities = activities

\* C4: for an existing activity, an unregister call that passes the
\* authentication gate succeeds exactly when the email is a participant;
\* on success exactly that email is gone, the others keep their order and
\* all other activities are unchanged; otherwise it signals Conflict.
C4_Unregister ==
    (/\ last.op = "unregister"
     /\ last.status_code # Unauthorized
     /\ last.activity_name \in DOMAIN last.before.activities)
    => LET old == last.before.activities[last.activity_name].participants
           new == activities[last.activity_name].participants
       IN  /\ last.status_code = 200 <=> InList(last.email, old)
           /\ last.status_code = 200 =>
                 /\ new = Without(old, last.email)
                 /\ Len(new) = Len(old) - 1
                 /\ OthersUnchanged(last.activity_name)
           /\ ~InList(last.email, old) => last.status_code = Conflict

C4_Witness ==
    /\ last.op = "unregister"
    /\ last.status_code = 200
    /\ ~last.username.given /\ ~last.password.given
    /\ LET old == last.before.activities[last.activity_name].participants
       IN  Len(old) = 3 /\ old[2] = last.email
    /\ \E m \in DOMAIN activities \ {last.activity_name} : activities[m].participants # << >>

\* C5: for an existing activity, signup succeeds exactly when the email is
\* not yet a participant; on success the email is appended at the end,
\* whatever the capacity limit; the same signup issued again right after a
\* successful one signals Conflict.
C5_Signup ==
    (/\ last.op = "signup"
     /\ last.activity_name \in DOMAIN last.before.activities)
    => LET old == last.before.activities[last.activity_name].participants
           new == activities[last.activity_name].participants
       IN  /\ last.status_code = 200 <=> ~InList(last.email, old)
           /\ last.status_code = 200 =>
                 /\ new = Append(old, last.email)
                 /\ OthersUnchanged(last.activity_name)
                 /\ signup_for_activity(activities, last.activity_name, last.email)
                        .response.status_code = Conflict
           /\ InList(last.email, old) => last.status_code = Conflict

C5_Witness ==
    /\ last.op = "signup"
    /\ last.status_code = 200
    /\ LET a == last.before.activities[last.activity_name]
       IN  Len(a.participants) > a.max_participants

\* C6: login succeeds, returning the username, exactly when the username is
\* a key of the credential store and the stored password equals the given
\* one character for character; every other pair, a pair one character off
\* a stored pair included, gets Unauthorized; login changes neither store.
C6_Login ==
    last.op = "login" =>
        LET u == last.username.val
            p == last.password.val
        IN  /\ last.status_code \in {200, Unauthorized}
            /\ last.status_code = 200 <=> Stored(teachers, u, p)
            /\ last.status_code = 200 => last.body.username = u
            /\ \A su \in DOMAIN teachers :
                  (/\ ~Stored(teachers, u, p)
                   /\ \/ u = su /\ OneCharOff(p, teachers[su])
                      \/ OneCharOff(u, su) /\ p = teachers[su])
                  => last.status_code = Unauthorized
            /\ activities = last.before.activities
            /\ teachers = last.before.teachers

C6_Witness ==
    /\ last.op = "login"
    /\ last.status_code = Unauthorized
    /\ last.username.val \in DOMAIN teachers
    /\ Len(last.password.val) = Len(teachers[last.username.val])
    /\ OneCharOff(last.password.val, teachers[last.username.val])

\* what of the activity store is fixed at startup
Static(acts) ==
    [n \in DOMAIN acts |->
        [description |-> acts[n].description,
         schedule |-> acts[n].schedule,
         max_participants |-> acts[n].max_participants]]

\* C7: no call changes the set of activity names, any description,
\* schedule or capacity limit, or the credential store; root,
\* get_activities and login change nothing at all.
C7_Frame ==
    [][/\ Static(activities') = Static(activities)
       /\ teachers' = teachers
       /\ last'.op \in {"root", "get_activities", "login"} => activities' = activities]_vars

C7_Witness ==
    /\ last.op = "signup"
    /\ last.status_code = 200
    /\ activities # last.before.activities
    /\ Len(activities[last.activity_name].participants) = 3

\* C8: signup's membership test and its append are separate steps: the
\* append step of a call appends and answers success whatever the list
\* holds by then, so that two concurrent signups of the same email can both
\* succeed and leave the email in the list twice.
C8_AppendUnguarded ==
    [][\A t \in Threads :
          (pc[t] = "signup_append" /\ pc'[t] = "responded")
          => /\ res'[t].status_code = 200
             /\ activities'[frame[t].activity_name].participants
                  = Append(activities[frame[t].activity_name].participants, frame[t].email)]_vars

C8_Witness ==
    /\ \A t \in Threads : pc[t] = "responded" /\ res[t].op = "signup" /\ res[t].status_code = 200
    /\ res[1].activity_name = res[2].activity_name
    /\ res[1].email = res[2].email
    /\ ncalls = 2
    /\ Count(res[1].email, activities[res[1].activity_name].participants) = 2

\* C9: in every interleaving every call ends in success or in one of
\* Unauthorized, NotFound and Conflict.
C9_Classified ==
    \A t \in Threads :
        pc[t] = "responded" => res[t].status_code \in {200, Unauthorized, NotFound, Conflict}

\* C10: with calls run one at a time, a login, signup or unregister call
\* that fails leaves both stores as they were.
C10_FailureFrame ==
    (/\ last.op \in {"login", "signup", "unregister"}
     /\ last.status_code # 200)
    => /\ activities = last.before.activities
       /\ teachers = last.before.teachers

C10_Witness ==
    /\ last.op = "signup"
    /\ last.status_code = Conflict
    /\ Len(last.before.activities[last.activity_name].participants) = 2

=============================================================================
